---- MODULE Spec2Model ----
(***************************************************************************)
(* mail2mongo: an SMTP daemon that stores incoming mails in MongoDB and    *)
(* pushes a "new_mail" event to the websocket subscribed for the mail's    *)
(* recipient.  The model follows src/mail2mongo/__init__.py: one action    *)
(* per coroutine step (the code between two awaits runs atomically on the  *)
(* event loop).                                                            *)
(***************************************************************************)
EXTENDS Integers, Sequences, FiniteSets, TLC

VARIABLES
    server,      \* SMTPController.server: "init", "serving", "closed"
    received,    \* the messages handed to handle_message so far, in order
    log,         \* LOG.error diagnostics of handle_message (dropped messages)
    unit,        \* the process_payload task of each received message
    app_tasks,   \* Application._app_tasks: list of running task handles
    store,       \* the Mongo collection: the inserted documents
    ws_conn,     \* Application._ws_conn: email -> websocket
    conn,        \* each websocket_handler invocation and its websocket
    stop_pc,     \* position of Application.stop
    gathered,    \* the tasks Application.stop awaits in asyncio.gather
    mongo_closed, \* whether Application.stop has closed the Mongo client
    config,      \* the Config the Application was built with
    auth         \* the last /nginx-auth request and its response

vars == <<server, received, log, unit, app_tasks, store, ws_conn,
          conn, stop_pc, gathered, mongo_closed, config, auth>>

----------------------------------------------------------------------------
\* Bounds of the model.
MaxConns == 2
MaxMsgs == 2
MaxFails == 3
MaxLen == 3
MaxParts == 2

\* sleep_time = 60  # seconds
InitialSleep == 60

\* Python's None where a string is expected (an absent header, an absent
\* query parameter, a field not yet set).
NONE == "None"

\* Python's None where a websocket is expected (dict.get miss).
NoWebsock == 0

Conns == 1..MaxConns
Units == 1..MaxMsgs

\* The values of the ?email= query parameter and of the To header.
Emails == {"", "a@x.com"}

----------------------------------------------------------------------------
\* Text is a sequence of characters; str.strip() without argument strips
\* every whitespace character, str.strip(chars) the given ones.
Whitespace == {" ", "\t", "\n", "\r"}
Alphabet == Whitespace \cup {"x"}

RECURSIVE LStrip(_, _)
LStrip(s, chars) ==
    IF s = <<>> \/ s[1] \notin chars THEN s ELSE LStrip(Tail(s), chars)

RECURSIVE RStrip(_, _)
RStrip(s, chars) ==
    IF s = <<>> \/ s[Len(s)] \notin chars THEN s
    ELSE RStrip(SubSeq(s, 1, Len(s) - 1), chars)

Strip(s, chars) == RStrip(LStrip(s, chars), chars)

\* Mutant: the strip() calls without argument strip spaces only.
StripText_SpacesOnly(t) ==
    Strip(Strip(Strip(Strip(t, {" "}), {"\n"}), {"\r"}), {" "})

\* payload['text'].strip().strip('\n').strip('\r').strip()
StripText(t) ==
    Strip(Strip(Strip(Strip(t, Whitespace), {"\n"}), {"\r"}), Whitespace)

\* message.get(name, default)
Get(message, name, default) ==
    IF message[name] = NONE THEN default ELSE message[name]

\* The for/else over message.get_payload(): the index of the first part whose
\* content type is text/plain, 0 when the loop ends without break.
RECURSIVE FirstTextPlainFrom(_, _)
FirstTextPlainFrom(parts, i) ==
    IF i > Len(parts) THEN 0
    ELSE IF parts[i].content_type = "text/plain" THEN i
    ELSE FirstTextPlainFrom(parts, i + 1)

\* Mutant: any text/* part is taken.
FirstTextPlain_AnyText(parts) ==
    IF \E i \in DOMAIN parts : parts[i].content_type \in {"text/plain", "text/html"}
    THEN CHOOSE i \in DOMAIN parts :
             /\ parts[i].content_type \in {"text/plain", "text/html"}
             /\ \A h \in 1..(i - 1) :
                   parts[h].content_type \notin {"text/plain", "text/html"}
    ELSE 0

FirstTextPlain(parts) == FirstTextPlainFrom(parts, 1)

\* The first four keys of the payload dict of handle_message.
Headers(message, now) ==
    [from |-> Get(message, "From", ""),
     to |-> Get(message, "To", ""),
     subject |-> Get(message, "Subject", ""),
     timestamp |-> now]

\* Whether handle_message returns at the LOG.error branch.
IsDropped(message) ==
    message.multipart /\ FirstTextPlain(message.payload) = 0

\* payload['text'] before stripping.
RawText(message) ==
    IF message.multipart
    THEN message.payload[FirstTextPlain(message.payload)].payload
    ELSE message.payload

\* The payload dict handed to process_payload.
Payload(message, now) ==
    [from |-> Headers(message, now).from,
     to |-> Headers(message, now).to,
     subject |-> Headers(message, now).subject,
     timestamp |-> now,
     text |-> StripText(RawText(message))]

----------------------------------------------------------------------------
\* Inputs.
RECURSIVE StringsOfLen(_)
StringsOfLen(n) ==
    IF n = 0 THEN {<<>>}
    ELSE {Append(s, c) : s \in StringsOfLen(n - 1), c \in Alphabet}

Strings == UNION {StringsOfLen(n) : n \in 0..MaxLen}

ContentTypes == {"text/plain", "text/html"}

Parts == [content_type : ContentTypes, payload : {s \in Strings : Len(s) <= 1}]

RECURSIVE PartLists(_)
PartLists(n) ==
    IF n = 0 THEN {<<>>}
    ELSE {Append(l, p) : l \in PartLists(n - 1), p \in Parts}

\* Every message of the bounded input space.
AllMessages ==
    [From : {NONE, "u@dom"}, To : {NONE, "a@x.com"}, Subject : {NONE, "Hi"},
     multipart : {FALSE}, payload : Strings]
    \cup
    [From : {NONE, "u@dom"}, To : {NONE, "a@x.com"}, Subject : {NONE, "Hi"},
     multipart : {TRUE},
     payload : UNION {PartLists(n) : n \in 0..MaxParts}]

Msg(from, to, subject, body) ==
    [From |-> from, To |-> to, Subject |-> subject, multipart |-> FALSE,
     payload |-> body]

MultipartMsg(from, to, subject, parts) ==
    [From |-> from, To |-> to, Subject |-> subject, multipart |-> TRUE,
     payload |-> parts]

Part(ctype, body) == [content_type |-> ctype, payload |-> body]

\* The messages the protocol engine delivers in the pipeline specification.
Messages ==
    {Msg("u@dom", "a@x.com", "Hi", <<" ", "\n", "x", "\r">>),
     MultipartMsg(NONE, NONE, NONE,
                  <<Part("text/html", <<"x">>), Part("text/plain", <<"\t">>)>>),
     MultipartMsg("u@dom", "a@x.com", "Hi", <<Part("text/html", <<"x">>)>>)}

----------------------------------------------------------------------------
\* The payload of a task that does not exist.
NoPayload ==
    [from |-> "", to |-> "", subject |-> "", timestamp |-> 0, text |-> <<>>]

NoUnit ==
    [pc |-> "none", payload |-> NoPayload, sleep_time |-> 0, attempts |-> 0,
     slept |-> <<>>, websock |-> NoWebsock, cancel |-> FALSE, outcome |-> NONE]

\* A task that is done: the locals of process_payload are gone, the task
\* keeps its outcome ("ok": returned, "error": raised, "cancelled").
Done(t, outcome) ==
    [NoUnit EXCEPT !.pc = "finished", !.payload = t.payload,
                   !.outcome = outcome]

NoConn == [pc |-> "new", query |-> NONE, closed |-> FALSE, sent |-> <<>>]

\* The text of the model is a sequence of one-character strings.
Xcom == <<"x", ".", "c", "o", "m">>
Yorg == <<"y", ".", "o", "r", "g">>

\* --smtp-port, default=8025
DefaultSmtpPort == 8025

\* The Config of parse_args: the allowed domains and the SMTP port (the other
\* fields are handed to the Mongo client and to aiohttp).
DefaultConfig == [domains |-> <<Xcom>>, smtp_port |-> DefaultSmtpPort]

Configs == [domains : {<<Xcom>>, <<Yorg, Xcom>>}, smtp_port : {DefaultSmtpPort, 25}]

\* No /nginx-auth request has been answered.
NoAuth ==
    [called |-> FALSE, request |-> [headers |-> <<>>],
     response |-> [status |-> 0, headers |-> <<>>]]

\* Application.__init__(config)
Construct(cfg) ==
    /\ server = "init"
    /\ received = <<>>
    /\ log = <<>>
    /\ unit = [u \in Units |-> NoUnit]
    /\ app_tasks = <<>>
    /\ store = <<>>
    /\ ws_conn = [e \in {} |-> NoWebsock]
    /\ conn = [c \in Conns |-> NoConn]
    /\ stop_pc = "running"
    /\ gathered = {}
    /\ mongo_closed = FALSE
    /\ config = cfg
    /\ auth = NoAuth

\* Application(parse_args()) with the default command line.
Init == Construct(DefaultConfig)

----------------------------------------------------------------------------
\* dict operations on _ws_conn.
DictSet(d, k, v) == [e \in DOMAIN d \cup {k} |-> IF e = k THEN v ELSE d[e]]

DictDel(d, k) == [e \in DOMAIN d \ {k} |-> d[e]]

\* Mutant: a miss falls back to some registered websocket.
DictGet_Fallback(d, k) ==
    IF k \in DOMAIN d THEN d[k]
    ELSE IF DOMAIN d # {} THEN d[CHOOSE e \in DOMAIN d : TRUE]
    ELSE NoWebsock

\* dict.get(k): None on a miss.
DictGet(d, k) == IF k \in DOMAIN d THEN d[k] ELSE NoWebsock

\* list.remove(x): removes the first occurrence.
RECURSIVE ListRemove(_, _)
ListRemove(l, x) ==
    IF l = <<>> THEN <<>>
    ELSE IF Head(l) = x THEN Tail(l)
    ELSE <<Head(l)>> \o ListRemove(Tail(l), x)

Range(f) == {f[i] : i \in DOMAIN f}

----------------------------------------------------------------------------
\* Application.app_factory: await self._smtp_controller.start()
AppFactory ==
    /\ server = "init"
    /\ server' = "serving"
    /\ UNCHANGED <<received, log, unit, app_tasks, store, ws_conn,
                   conn, stop_pc, gathered, mongo_closed, config, auth>>

\* MessageHandler.handle_message, called by the protocol engine for a message
\* received on an SMTP session.  Server.close() closes the listening socket
\* and leaves established sessions open, so a session accepted while the
\* server was serving can still deliver a message after it.
\* datetime.now(timezone.utc) is read as the arrival number of the message.
HandleMessage(message) ==
    /\ server # "init"
    /\ Len(received) < MaxMsgs
    /\ LET u == Len(received) + 1
           now == Len(received) + 1
       IN  /\ received' = Append(received, message)
           /\ IF IsDropped(message)
              THEN /\ log' = Append(log, [payload |-> Headers(message, now),
                                          message |-> message])
                   /\ UNCHANGED <<unit, app_tasks>>
              ELSE /\ unit' = [unit EXCEPT ![u] =
                                 [NoUnit EXCEPT !.pc = "created",
                                                !.payload = Payload(message, now)]]
                   /\ app_tasks' = Append(app_tasks, u)
                   /\ UNCHANGED log
    /\ UNCHANGED <<server, store, ws_conn, conn, stop_pc, gathered,
                   mongo_closed, config, auth>>

\* process_payload runs up to its first await: the first insert_one call.
StartTask(u) ==
    /\ unit[u].pc = "created"
    /\ ~unit[u].cancel
    /\ unit' = [unit EXCEPT ![u].pc = "attempting",
                            ![u].sleep_time = InitialSleep,
                            ![u].attempts = 1]
    /\ UNCHANGED <<server, received, log, app_tasks, store, ws_conn,
                   conn, stop_pc, gathered, mongo_closed, config, auth>>

\* Mutant: the backoff wait blocks the event loop, so no insert completes
\* while a task sleeps.
InsertOk_Blocking(u) ==
    /\ unit[u].pc = "attempting"
    /\ ~unit[u].cancel
    /\ \A v \in Units \ {u} : unit[v].pc # "backoff"
    /\ store' = Append(store, unit[u].payload)
    /\ unit' = [unit EXCEPT ![u].pc = "inserted"]
    /\ UNCHANGED <<server, received, log, app_tasks, ws_conn, conn,
                   stop_pc, gathered, mongo_closed, config, auth>>

\* The store performs the insert; the task's wakeup is scheduled.
InsertOk(u) ==
    /\ unit[u].pc = "attempting"
    /\ ~unit[u].cancel
    /\ store' = Append(store, unit[u].payload)
    /\ unit' = [unit EXCEPT ![u].pc = "inserted"]
    /\ UNCHANGED <<server, received, log, app_tasks, ws_conn, conn,
                   stop_pc, gathered, mongo_closed, config, auth>>

\* Mutant: the except branch falls out of the loop instead of retrying.
InsertFail_FallThrough(u) ==
    /\ unit[u].pc = "attempting"
    /\ ~unit[u].cancel
    /\ Len(unit[u].slept) < MaxFails
    /\ unit' = [unit EXCEPT ![u].pc = "inserted"]
    /\ UNCHANGED <<server, received, log, app_tasks, store, ws_conn,
                   conn, stop_pc, gathered, mongo_closed, config, auth>>

\* Mutant: the loop gives up at the second failure and the task ends with
\* the error.
InsertFail_GiveUp(u) ==
    /\ unit[u].pc = "attempting"
    /\ ~unit[u].cancel
    /\ Len(unit[u].slept) < MaxFails
    /\ unit' = [unit EXCEPT ![u] =
                   IF Len(@.slept) >= 1 THEN Done(@, "error")
                   ELSE [@ EXCEPT !.pc = "backoff",
                                  !.slept = Append(@, unit[u].sleep_time)]]
    /\ UNCHANGED <<server, received, log, app_tasks, store, ws_conn,
                   conn, stop_pc, gathered, mongo_closed, config, auth>>

\* insert_one raises PyMongoError: the except branch logs and starts
\* asyncio.sleep(sleep_time).
InsertFail(u) ==
    /\ unit[u].pc = "attempting"
    /\ ~unit[u].cancel
    /\ Len(unit[u].slept) < MaxFails
    /\ unit' = [unit EXCEPT ![u].pc = "backoff",
                            ![u].slept = Append(@, unit[u].sleep_time)]
    /\ UNCHANGED <<server, received, log, app_tasks, store, ws_conn,
                   conn, stop_pc, gathered, mongo_closed, config, auth>>

\* Mutant: the wait grows by a constant instead of doubling.
WakeUp_Linear(u) ==
    /\ unit[u].pc = "backoff"
    /\ ~unit[u].cancel
    /\ unit' = [unit EXCEPT ![u].pc = "attempting",
                            ![u].sleep_time = @ + InitialSleep,
                            ![u].attempts = @ + 1]
    /\ UNCHANGED <<server, received, log, app_tasks, store, ws_conn,
                   conn, stop_pc, gathered, mongo_closed, config, auth>>

\* asyncio.sleep returns: sleep_time = 2 * sleep_time, and the loop calls
\* insert_one again.
WakeUp(u) ==
    /\ unit[u].pc = "backoff"
    /\ ~unit[u].cancel
    /\ unit' = [unit EXCEPT ![u].pc = "attempting",
                            ![u].sleep_time = 2 * @,
                            ![u].attempts = @ + 1]
    /\ UNCHANGED <<server, received, log, app_tasks, store, ws_conn,
                   conn, stop_pc, gathered, mongo_closed, config, auth>>

\* A task past the retry loop, suspended in websock.send_json: sleep_time is
\* dead after the loop.
Sending(t, websock) ==
    [NoUnit EXCEPT !.pc = "sending", !.payload = t.payload,
                   !.websock = websock]

\* Mutant: the lookup uses the sender.
Recipient_From(payload) == payload.from

\* The key of the lookup: payload['to']
Recipient(payload) == payload.to

NewMail(payload) == [type |-> "new_mail", payload |-> payload]

\* Mutant: the "is not None" test is missing, so a lookup miss raises.
Dispatch_NoNoneTest(u) ==
    /\ unit[u].pc = "inserted"
    /\ ~unit[u].cancel
    /\ LET websock == DictGet(ws_conn, Recipient(unit[u].payload))
       IN  \/ /\ websock = NoWebsock
              /\ unit' = [unit EXCEPT ![u] = Done(@, "error")]
              /\ UNCHANGED conn
           \/ /\ websock # NoWebsock
              /\ ~conn[websock].closed
              /\ conn' = [conn EXCEPT ![websock].sent =
                              Append(@, NewMail(unit[u].payload))]
              /\ unit' = [unit EXCEPT ![u] = Sending(@, websock)]
           \/ /\ websock # NoWebsock
              /\ conn[websock].closed
              /\ unit' = [unit EXCEPT ![u] = Done(@, "error")]
              /\ UNCHANGED conn
    /\ UNCHANGED <<server, received, log, app_tasks, store, ws_conn,
                   stop_pc, gathered, mongo_closed, config, auth>>

\* Mutant: an event that cannot be sent is kept for the closed connection.
Dispatch_QueueOnClosed(u) ==
    /\ unit[u].pc = "inserted"
    /\ ~unit[u].cancel
    /\ LET websock == DictGet(ws_conn, Recipient(unit[u].payload))
       IN  \/ /\ websock = NoWebsock
              /\ unit' = [unit EXCEPT ![u] = Done(@, "ok")]
              /\ UNCHANGED conn
           \/ /\ websock # NoWebsock
              /\ conn' = [conn EXCEPT ![websock].sent =
                              Append(@, NewMail(unit[u].payload))]
              /\ unit' = [unit EXCEPT ![u] = Sending(@, websock)]
    /\ UNCHANGED <<server, received, log, app_tasks, store, ws_conn,
                   stop_pc, gathered, mongo_closed, config, auth>>

\* The task resumes after the insert: websock = self._ws_conn.get(payload['to'])
\* and, when it is not None, websock.send_json(...).  The frame is written
\* before send_json first suspends.  On a closed websocket the send either
\* raises or only logs a warning, depending on the aiohttp release.
Dispatch(u) ==
    /\ unit[u].pc = "inserted"
    /\ ~unit[u].cancel
    /\ LET websock == DictGet(ws_conn, Recipient(unit[u].payload))
       IN  \/ /\ websock = NoWebsock
              /\ unit' = [unit EXCEPT ![u] = Done(@, "ok")]
              /\ UNCHANGED conn
           \/ /\ websock # NoWebsock
              /\ ~conn[websock].closed
              /\ conn' = [conn EXCEPT ![websock].sent =
                              Append(@, NewMail(unit[u].payload))]
              /\ unit' = [unit EXCEPT ![u] = Sending(@, websock)]
           \/ /\ websock # NoWebsock
              /\ conn[websock].closed
              /\ unit' = [unit EXCEPT ![u] = Done(@, "error")]
              /\ UNCHANGED conn
           \/ /\ websock # NoWebsock
              /\ conn[websock].closed
              /\ unit' = [unit EXCEPT ![u] = Sending(@, websock)]
              /\ UNCHANGED conn
    /\ UNCHANGED <<server, received, log, app_tasks, store, ws_conn,
                   stop_pc, gathered, mongo_closed, config, auth>>

\* send_json returns and process_payload ends.
SendDone(u) ==
    /\ unit[u].pc = "sending"
    /\ ~unit[u].cancel
    /\ unit' = [unit EXCEPT ![u] = Done(@, "ok")]
    /\ UNCHANGED <<server, received, log, app_tasks, store, ws_conn,
                   conn, stop_pc, gathered, mongo_closed, config, auth>>

Suspended == {"created", "attempting", "inserted", "backoff", "sending"}

\* Mutant: asyncio.sleep is a blocking wait that cancellation does not reach.
Cancelled_NotInSleep(u) ==
    /\ unit[u].pc \in Suspended \ {"backoff"}
    /\ unit[u].cancel
    /\ unit' = [unit EXCEPT ![u] = Done(@, "cancelled")]
    /\ UNCHANGED <<server, received, log, app_tasks, store, ws_conn,
                   conn, stop_pc, gathered, mongo_closed, config, auth>>

\* A task whose cancellation was requested gets CancelledError at the await
\* it is suspended in; process_payload does not catch it.
Cancelled(u) ==
    /\ unit[u].pc \in Suspended
    /\ unit[u].cancel
    /\ unit' = [unit EXCEPT ![u] = Done(@, "cancelled")]
    /\ UNCHANGED <<server, received, log, app_tasks, store, ws_conn,
                   conn, stop_pc, gathered, mongo_closed, config, auth>>

\* Mutant: the callback is skipped for a cancelled task.
DoneCallback_NotCancelled(u) ==
    /\ unit[u].pc = "finished"
    /\ unit' = [unit EXCEPT ![u].pc = "removed"]
    /\ app_tasks' = IF unit[u].outcome = "cancelled" THEN app_tasks
                    ELSE ListRemove(app_tasks, u)
    /\ UNCHANGED <<server, received, log, store, ws_conn, conn,
                   stop_pc, gathered, mongo_closed, config, auth>>

\* fut.add_done_callback(self._app_tasks.remove): the event loop runs the
\* callback after the task is done.
DoneCallback(u) ==
    /\ unit[u].pc = "finished"
    /\ unit' = [unit EXCEPT ![u].pc = "removed"]
    /\ app_tasks' = ListRemove(app_tasks, u)
    /\ UNCHANGED <<server, received, log, store, ws_conn, conn,
                   stop_pc, gathered, mongo_closed, config, auth>>

----------------------------------------------------------------------------
ErrorEvent(msg) == [type |-> "error", payload |-> [msg |-> msg]]

\* 'email' not in request.query
EmailMissing(query) == query = NONE

\* Mutant: the duplicate check is missing.
AlreadySubscribed_Never(query) == FALSE

\* request.query['email'] in self._ws_conn
AlreadySubscribed(query) == query \in DOMAIN ws_conn

\* A client opens /ws, with or without ?email=...; websocket_handler runs up to
\* the end of await websock.prepare(request).  Requests are numbered in the
\* order they arrive.
Prepare(c, query) ==
    /\ server # "init"
    /\ stop_pc = "running"
    /\ conn[c].pc = "new"
    /\ \A b \in 1..(c - 1) : conn[b].pc # "new"
    /\ conn' = [conn EXCEPT ![c].pc = "prepared", ![c].query = query]
    /\ UNCHANGED <<server, received, log, unit, app_tasks, store,
                   ws_conn, stop_pc, gathered, mongo_closed, config, auth>>

\* websocket_handler from the query checks to its next await: either an error
\* event is sent (and websock.close() is awaited next), or the websocket is
\* installed in _ws_conn and the handler waits for messages.
Subscribe(c) ==
    /\ conn[c].pc = "prepared"
    /\ IF EmailMissing(conn[c].query)
       THEN /\ conn' = [conn EXCEPT ![c].pc = "rejected",
                           ![c].sent = Append(@, ErrorEvent("email should be defined"))]
            /\ UNCHANGED ws_conn
       ELSE IF AlreadySubscribed(conn[c].query)
       THEN /\ conn' = [conn EXCEPT ![c].pc = "rejected",
                           ![c].sent = Append(@, ErrorEvent("subscriber already exists"))]
            /\ UNCHANGED ws_conn
       ELSE /\ ws_conn' = DictSet(ws_conn, conn[c].query, c)
            /\ conn' = [conn EXCEPT ![c].pc = "listening"]
    /\ UNCHANGED <<server, received, log, unit, app_tasks, store,
                   stop_pc, gathered, mongo_closed, config, auth>>

\* Mutant: the rejection happens inside the try block, so the rejected
\* handler runs the finally clause too.
RejectClose_Finally(c) ==
    /\ conn[c].pc = "rejected"
    /\ conn' = [conn EXCEPT ![c].pc = "unwinding", ![c].closed = TRUE]
    /\ UNCHANGED <<server, received, log, unit, app_tasks, store,
                   ws_conn, stop_pc, gathered, mongo_closed, config, auth>>

\* The rejected handler: await websock.close(); return websock
RejectClose(c) ==
    /\ conn[c].pc = "rejected"
    /\ conn' = [conn EXCEPT ![c].pc = "returned", ![c].closed = TRUE]
    /\ UNCHANGED <<server, received, log, unit, app_tasks, store,
                   ws_conn, stop_pc, gathered, mongo_closed, config, auth>>

\* The subscriber's connection closes (a CLOSE frame or a connection error):
\* the websocket is closed and the async for loop is about to end.
ClientClose(c) ==
    /\ conn[c].pc = "listening"
    /\ conn' = [conn EXCEPT ![c].pc = "unwinding", ![c].closed = TRUE]
    /\ UNCHANGED <<server, received, log, unit, app_tasks, store,
                   ws_conn, stop_pc, gathered, mongo_closed, config, auth>>

\* Mutant: the handler returns without the finally clause.
HandlerExit_NoDel(c) ==
    /\ conn[c].pc = "unwinding"
    /\ conn' = [conn EXCEPT ![c].pc = "returned"]
    /\ UNCHANGED <<server, received, log, unit, app_tasks, store, ws_conn,
                   stop_pc, gathered, mongo_closed, config, auth>>

\* The loop of an accepted handler has ended:
\* finally: del self._ws_conn[request.query['email']]
\* (KeyError when the key is absent).
HandlerExit(c) ==
    /\ conn[c].pc = "unwinding"
    /\ IF conn[c].query \in DOMAIN ws_conn
       THEN /\ ws_conn' = DictDel(ws_conn, conn[c].query)
            /\ conn' = [conn EXCEPT ![c].pc = "returned"]
       ELSE /\ conn' = [conn EXCEPT ![c].pc = "raised"]
            /\ UNCHANGED ws_conn
    /\ UNCHANGED <<server, received, log, unit, app_tasks, store,
                   stop_pc, gathered, mongo_closed, config, auth>>

----------------------------------------------------------------------------
\* aiohttp's on_shutdown signal calls Application.stop, which starts
\* SMTPController.stop: self.server.close(), then awaits wait_closed().
\* Closing the server closes the listening socket only.
StopSignal ==
    /\ server = "serving"
    /\ stop_pc = "running"
    /\ server' = "closed"
    /\ stop_pc' = "smtp_stopping"
    /\ UNCHANGED <<received, log, unit, app_tasks, store, ws_conn,
                   conn, mongo_closed, gathered, config, auth>>

\* Task.cancel(): no effect on a task that is done.
CancelTask(t) ==
    IF t.pc \in Suspended THEN [t EXCEPT !.cancel = TRUE] ELSE t

\* wait_closed() has returned: for task in self._app_tasks: task.cancel(),
\* then asyncio.gather(*self._app_tasks, return_exceptions=True) is awaited.
CancelTasks ==
    /\ stop_pc = "smtp_stopping"
    /\ unit' = [u \in Units |->
                   IF u \in Range(app_tasks) THEN CancelTask(unit[u])
                   ELSE unit[u]]
    /\ gathered' = Range(app_tasks)
    /\ stop_pc' = "gathering"
    /\ UNCHANGED <<server, received, log, app_tasks, store, ws_conn,
                   conn, mongo_closed, config, auth>>

\* The websockets Application.stop closes.
WsClosers == {e \in DOMAIN ws_conn : ~conn[ws_conn[e]].closed}

\* Mutant: the tasks are cancelled and not awaited.
CloseWebsockets_NoGather ==
    /\ stop_pc = "gathering"
    /\ conn' = [c \in Conns |->
                   IF \E e \in WsClosers : ws_conn[e] = c
                   THEN [conn[c] EXCEPT !.closed = TRUE, !.pc = "unwinding"]
                   ELSE conn[c]]
    /\ IF WsClosers = {}
       THEN stop_pc' = "stopped" /\ mongo_closed' = TRUE
       ELSE stop_pc' = "closing_ws" /\ UNCHANGED mongo_closed
    /\ UNCHANGED <<server, received, log, unit, app_tasks, store,
                   ws_conn, gathered, config, auth>>

\* gather has returned (every awaited task is done and its callbacks have
\* run): the websockets of _ws_conn that are not closed are closed; with none
\* to close, self._mongo.close() follows at once.
CloseWebsockets ==
    /\ stop_pc = "gathering"
    /\ \A u \in gathered : unit[u].pc = "removed"
    /\ conn' = [c \in Conns |->
                   IF \E e \in WsClosers : ws_conn[e] = c
                   THEN [conn[c] EXCEPT !.closed = TRUE, !.pc = "unwinding"]
                   ELSE conn[c]]
    /\ IF WsClosers = {}
       THEN stop_pc' = "stopped" /\ mongo_closed' = TRUE
       ELSE stop_pc' = "closing_ws" /\ UNCHANGED mongo_closed
    /\ UNCHANGED <<server, received, log, unit, app_tasks, store,
                   ws_conn, gathered, config, auth>>

\* The gather of the close() calls has returned: self._mongo.close()
MongoClose ==
    /\ stop_pc = "closing_ws"
    /\ stop_pc' = "stopped"
    /\ mongo_closed' = TRUE
    /\ UNCHANGED <<server, received, log, unit, app_tasks, store,
                   ws_conn, conn, gathered, config, auth>>

----------------------------------------------------------------------------
\* str.split(sep) with a one-character separator: the list of the pieces.
RECURSIVE Split(_, _)
Split(s, sep) ==
    IF \A i \in DOMAIN s : s[i] # sep THEN <<s>>
    ELSE LET i == CHOOSE k \in DOMAIN s :
                      s[k] = sep /\ \A h \in 1..(k - 1) : s[h] # sep
         IN  <<SubSeq(s, 1, i - 1)>> \o Split(SubSeq(s, i + 1, Len(s)), sep)

Digits == <<"0", "1", "2", "3", "4", "5", "6", "7", "8", "9">>

\* str(n) of a port number.
RECURSIVE Str(_)
Str(n) ==
    IF n < 10 THEN <<Digits[n + 1]>>
    ELSE Append(Str(n \div 10), Digits[(n % 10) + 1])

\* request.headers.get(name, default)
HeadersGet(headers, name, default) ==
    IF name \in DOMAIN headers THEN headers[name] ELSE default

\* Whether rcpt.split('<')[1].split('>')[0].split('@')[1] finds every index
\* (IndexError otherwise).
HasDomain(rcpt) ==
    /\ Len(Split(rcpt, "<")) >= 2
    /\ Len(Split(Split(Split(rcpt, "<")[2], ">")[1], "@")) >= 2

\* rcpt.split('<')[1].split('>')[0].split('@')[1]
RcptDomain(rcpt) == Split(Split(Split(rcpt, "<")[2], ">")[1], "@")[2]

\* Mutant: the allow-list entry only has to start the domain.
CheckPassed_Prefix(domains, rcpt) ==
    SelectSeq(domains,
              LAMBDA x : Len(x) <= Len(rcpt) /\ SubSeq(rcpt, 1, Len(x)) = x)

\* check_passed = [x for x in self._allow_domains if x == rcpt]
CheckPassed(domains, rcpt) == SelectSeq(domains, LAMBDA x : x = rcpt)

\* The response of auth_handler; an IndexError of the handler is answered by
\* aiohttp with status 500.
AuthResponse(request) ==
    LET rcpt == HeadersGet(request.headers, "Auth-SMTP-To", <<>>)
    IN  IF ~HasDomain(rcpt)
        THEN [status |-> 500, headers |-> <<>>]
        ELSE IF CheckPassed(config.domains, RcptDomain(rcpt)) = <<>>
        THEN [status |-> 200,
              headers |-> ("Auth-Status" :> "FORBIDDEN" @@ "Auth-Wait" :> "0")]
        ELSE [status |-> 200,
              headers |-> ("Auth-Status" :> "OK"
                           @@ "Auth-Server" :> request.headers["Host"]
                           @@ "Auth-Port" :> Str(config.smtp_port))]

\* Application.auth_handler for a GET /nginx-auth request.
AuthHandler(request) ==
    /\ server # "init"
    /\ auth' = [called |-> TRUE, request |-> request,
                response |-> AuthResponse(request)]
    /\ UNCHANGED <<server, received, log, unit, app_tasks, store, ws_conn,
                   conn, stop_pc, gathered, mongo_closed, config>>

\* The Auth-SMTP-To headers of the requests: "Name <local@domain>" for the
\* names, local parts and domains below, and headers that are not of that
\* form (no "<", no "@", a "<" inside the name).
AuthNames == {<<>>, <<"B", "o", "b", " ">>}

AuthLocals == {<<"u">>, <<"a", ".", "b">>}

AuthDomains == {Xcom, Yorg, <<"x", ".", "c", "o">>,
                <<"x", ".", "c", "o", "m", ".", "a", "u">>, <<"X", ".", "c", "o", "m">>}

Address(name, local, domain) ==
    name \o <<"<">> \o local \o <<"@">> \o domain \o <<">">>

AuthRcpts ==
    {Address(name, local, domain) :
        name \in AuthNames, local \in AuthLocals, domain \in AuthDomains}
    \cup {<<"B", "o", "b">>, <<"<", "u", ">">>,
          <<"<", "B", ">", " ">> \o Address(<<>>, <<"u">>, Xcom)}

\* The requests nginx's auth_http sends: Host is always present, Auth-SMTP-To
\* may be absent.
AuthRequests ==
    {[headers |-> ("Host" :> "mail.local" @@ "Auth-SMTP-To" :> rcpt)] :
        rcpt \in AuthRcpts}
    \cup {[headers |-> ("Host" :> "mail.local")]}

----------------------------------------------------------------------------
UnitStep(u) ==
    \/ StartTask(u)
    \/ InsertOk(u)
    \/ InsertFail(u)
    \/ WakeUp(u)
    \/ Dispatch(u)
    \/ SendDone(u)
    \/ Cancelled(u)
    \/ DoneCallback(u)

Next ==
    \/ AppFactory
    \/ \E message \in Messages : HandleMessage(message)
    \/ \E u \in Units : UnitStep(u)
    \/ \E c \in Conns, query \in Emails \cup {NONE} : Prepare(c, query)
    \/ \E c \in Conns : Subscribe(c)
    \/ \E c \in Conns : RejectClose(c)
    \/ \E c \in Conns : ClientClose(c)
    \/ \E c \in Conns : HandlerExit(c)
    \/ StopSignal
    \/ CancelTasks
    \/ CloseWebsockets
    \/ MongoClose

Spec == Init /\ [][Next]_vars

\* The event loop runs every ready coroutine step, the store answers every
\* insert and every timer fires; what clients and the operator do is free.
Fairness ==
    /\ \A u \in Units : WF_vars(UnitStep(u))
    /\ \A c \in Conns : WF_vars(Subscribe(c) \/ RejectClose(c) \/ HandlerExit(c))
    /\ WF_vars(CancelTasks \/ CloseWebsockets \/ MongoClose)

\* The system with a single message received: one task, every connection.
LiveNext == Next /\ Len(received') <= 1

SingleSpec == Init /\ [][LiveNext]_vars

FairSpec == SingleSpec /\ Fairness

\* Every message with a single subscriber request, under the fairness of the
\* event loop: the tasks of several messages and the shutdown.
DrainNext == Next /\ \A c \in Conns \ {1} : conn'[c].pc = "new"

DrainSpec == Init /\ [][DrainNext]_vars /\ Fairness

\* The normalisation of handle_message over the whole bounded input space.
NormNext ==
    \/ AppFactory
    \/ \E message \in AllMessages : received = <<>> /\ HandleMessage(message)

NormSpec == Init /\ [][NormNext]_vars

\* The authorization callback next to the pipeline of one message and one
\* subscriber while the application runs, for every configuration.
AuthInit == \E cfg \in Configs : Construct(cfg)

AuthNext ==
    \/ \E request \in AuthRequests : AuthHandler(request)
    \/ /\ Next
       /\ Len(received') <= 1
       /\ \A c \in Conns \ {1} : conn'[c].pc = "new"
       /\ stop_pc' = "running"

AuthSpec == AuthInit /\ [][AuthNext]_vars

----------------------------------------------------------------------------
\* Vocabulary of the properties.

Accepted(c) == conn[c].pc \in {"listening", "unwinding"}

Rejected(c, msg) ==
    /\ conn[c].pc \in {"rejected", "returned"}
    /\ conn[c].sent = <<ErrorEvent(msg)>>

\* Subscribe(c) is the step being taken.
Subscribing(c) == conn[c].pc = "prepared" /\ conn'[c].pc # "prepared"

\* How many documents of the collection equal p.
Stored(p) == Cardinality({i \in DOMAIN store : store[i] = p})

\* How many new_mail events carrying p have been written to websocket c.
EventsOn(c, p) ==
    Cardinality({i \in DOMAIN conn[c].sent : conn[c].sent[i] = NewMail(p)})

RECURSIVE SumEvents(_, _)
SumEvents(cs, p) ==
    IF cs = {} THEN 0
    ELSE LET c == CHOOSE x \in cs : TRUE
         IN  EventsOn(c, p) + SumEvents(cs \ {c}, p)

\* How many new_mail events carrying p have been written to any websocket.
Events(p) == SumEvents(Conns, p)

RECURSIVE Pow2(_)
Pow2(n) == IF n = 0 THEN 1 ELSE 2 * Pow2(n - 1)

Spawned(u) == unit[u].pc # "none"

\* Unit u takes the step that follows its successful insert.
Dispatching(u) == unit[u].pc = "inserted" /\ unit'[u].pc # "inserted"

----------------------------------------------------------------------------
\* Definitions used by C1.
C1_RegistryInv ==
    /\ \A e \in DOMAIN ws_conn :
          /\ ws_conn[e] \in Conns
          /\ Accepted(ws_conn[e])
          /\ conn[ws_conn[e]].query = e
    /\ \A c \in Conns : Accepted(c) =>
          /\ conn[c].query \in DOMAIN ws_conn
          /\ ws_conn[conn[c].query] = c
    /\ \A c, d \in Conns :
          Accepted(c) /\ Accepted(d) /\ conn[c].query = conn[d].query => c = d
    /\ \A c \in Conns :
          Rejected(c, "subscriber already exists") /\ conn[c].pc = "returned"
              => conn[c].closed

C1_SubscribeStep ==
    \A c \in Conns : Subscribing(c) /\ conn[c].query # NONE =>
        IF conn[c].query \in DOMAIN ws_conn
        THEN /\ ws_conn' = ws_conn
             /\ conn'[c].pc = "rejected"
             /\ conn'[c].sent = <<ErrorEvent("subscriber already exists")>>
             /\ \A d \in Conns \ {c} : conn'[d] = conn[d]
        ELSE /\ Accepted(c)'
             /\ ws_conn'[conn[c].query] = c
             /\ conn'[c].sent = <<>>

\* C1: the registry holds at most one live connection per identity.  Every
\* entry of _ws_conn maps an identity to an accepted connection that asked for
\* it, every accepted connection is the entry of its identity (so two accepted
\* connections never share one), a subscribe for an identity that has an entry
\* is rejected with exactly one "subscriber already exists" error event and
\* leaves _ws_conn unchanged, a subscribe for a free identity is accepted, and
\* a rejected connection is closed when its handler returns.
C1_AtMostOnePerIdentity == [](C1_RegistryInv) /\ [][C1_SubscribeStep]_vars

\* Two requests for the same identity: the first is accepted and still
\* subscribed, the second was rejected and its connection closed.
C1_Witness ==
    \E c, d \in Conns :
        /\ c # d
        /\ conn[c].query = conn[d].query
        /\ conn[c].pc = "listening"
        /\ ws_conn[conn[c].query] = c
        /\ Rejected(d, "subscriber already exists")
        /\ conn[d].pc = "returned"
        /\ conn[d].closed

----------------------------------------------------------------------------
\* C2: a subscribe request whose identity is empty or absent is rejected with
\* an "email should be defined" error event and then closed, and _ws_conn
\* never holds an entry keyed by the empty string.
C2_MissingIdentityRejected ==
    /\ "" \notin DOMAIN ws_conn
    /\ \A c \in Conns :
          conn[c].query \in {NONE, ""} /\ conn[c].pc \notin {"new", "prepared"}
              => /\ Rejected(c, "email should be defined")
                 /\ (conn[c].pc = "returned" => conn[c].closed)

----------------------------------------------------------------------------
\* Definitions used by C3.
C3_Released(c) ==
    /\ conn[c].pc = "returned"
    /\ \A e \in DOMAIN ws_conn : ws_conn[e] # c

C3_ReleasedInv ==
    \A c \in Conns : conn[c].pc \in {"returned", "raised"} => C3_Released(c)

C3_Resubscribe ==
    \A c \in Conns :
        Subscribing(c) /\ conn[c].query # NONE
            /\ conn[c].query \notin DOMAIN ws_conn
        => Accepted(c)' /\ ws_conn'[conn[c].query] = c

\* C3: when an accepted subscriber's connection closes (by the client, by an
\* error or by Application.stop), its handler ends by removing its entry: a
\* closed accepted connection leads to a returned handler whose identity is
\* no longer mapped to it, no returned handler is still in _ws_conn, and a
\* later subscribe for an identity without entry is accepted.
C3_EntryEventuallyRemoved ==
    /\ \A c \in Conns : (Accepted(c) /\ conn[c].closed) ~> C3_Released(c)
    /\ [](C3_ReleasedInv)
    /\ [][C3_Resubscribe]_vars

\* A subscriber was accepted, closed and returned, and a later request for
\* the same identity is subscribed.
C3_Witness ==
    \E c, d \in Conns :
        /\ c # d
        /\ conn[c].pc = "returned"
        /\ conn[c].closed
        /\ conn[c].sent = <<>>
        /\ conn[d].query = conn[c].query
        /\ conn[d].pc = "listening"
        /\ ws_conn[conn[d].query] = d

----------------------------------------------------------------------------
\* Definitions used by C4.
C4_Waits(t) ==
    \A k \in 1..Len(t.slept) : t.slept[k] = InitialSleep * Pow2(k - 1)

\* C4: against a store that fails N times and then succeeds, one persist
\* call makes exactly N+1 insert attempts, the wait before the k-th retry is
\* 60 * 2^(k-1) seconds, there is no wait before the first attempt nor after
\* the successful one, and the loop is left after the (N+1)-th attempt with
\* the document inserted once.  While the loop runs, a task that has failed N
\* times has made N+1 attempts when an insert is in flight and N attempts
\* with N waits started when it sleeps.
C4_ExactBackoff ==
    \A u \in Units :
        /\ unit[u].pc = "attempting" =>
              /\ unit[u].attempts = Len(unit[u].slept) + 1
              /\ C4_Waits(unit[u])
              /\ unit[u].sleep_time = InitialSleep * Pow2(Len(unit[u].slept))
              /\ Stored(unit[u].payload) = 0
        /\ unit[u].pc = "backoff" =>
              /\ unit[u].attempts = Len(unit[u].slept)
              /\ unit[u].attempts >= 1
              /\ C4_Waits(unit[u])
              /\ Stored(unit[u].payload) = 0
        /\ unit[u].pc = "inserted" =>
              /\ unit[u].attempts = Len(unit[u].slept) + 1
              /\ C4_Waits(unit[u])
              /\ Stored(unit[u].payload) = 1

\* The store failed MaxFails times, and the next attempt succeeded.
C4_Witness ==
    \E u \in Units :
        /\ unit[u].pc = "inserted"
        /\ Len(unit[u].slept) = MaxFails
        /\ unit[u].attempts = MaxFails + 1

----------------------------------------------------------------------------
\* Definitions used by C5.
C5_InLoop(u) == unit[u].pc \in {"created", "attempting", "backoff"}

C5_LeftLoop(u) ==
    unit[u].pc \in {"inserted", "sending", "finished", "removed"}

C5_OnlySuccessOrCancel ==
    \A u \in Units :
        C5_LeftLoop(u) =>
            Stored(unit[u].payload) = 1 \/ unit[u].outcome = "cancelled"

C5_LoopStep ==
    \A u \in Units :
        /\ unit[u].pc = "attempting" /\ unit'[u].pc # "attempting" =>
              \/ unit'[u].pc = "inserted" /\ Stored(unit[u].payload)' = 1
              \/ unit'[u].pc = "backoff"
              \/ unit[u].cancel /\ unit'[u].outcome = "cancelled"
        /\ unit[u].pc = "backoff" /\ unit'[u].pc # "backoff" =>
              \/ unit'[u].pc = "attempting"
              \/ unit[u].cancel /\ unit'[u].outcome = "cancelled"

----------------------------------------------------------------------------
\* C6: within a unit persist precedes notify.  Every new_mail event written
\* to a websocket carries a document that is in the collection, and the task
\* of that document is past its retry loop; no event exists for a document
\* whose task is created, attempting, in backoff, or was cancelled before
\* its insert succeeded.
C6_PersistBeforeNotify ==
    /\ \A c \in Conns : \A i \in DOMAIN conn[c].sent :
          conn[c].sent[i].type = "new_mail" =>
              /\ Stored(conn[c].sent[i].payload) = 1
              /\ \E u \in Units :
                    /\ unit[u].payload = conn[c].sent[i].payload
                    /\ unit[u].pc \in {"sending", "finished", "removed"}
    /\ \A u \in Units :
          Spawned(u) /\ Stored(unit[u].payload) = 0 => Events(unit[u].payload) = 0

\* A subscriber has received the event of a stored document.
C6_Witness ==
    \E c \in Conns, u \in Units :
        /\ unit[u].pc = "sending"
        /\ unit[u].websock = c
        /\ conn[c].sent = <<NewMail(unit[u].payload)>>
        /\ store = <<unit[u].payload>>

----------------------------------------------------------------------------
\* Definitions used by C7.
C7_DispatchLive ==
    \A u \in Units :
        LET p == unit[u].payload
        IN  /\ Dispatching(u) /\ ~unit[u].cancel
               /\ p.to \in DOMAIN ws_conn /\ ~conn[ws_conn[p.to]].closed
               => /\ conn'[ws_conn[p.to]].sent =
                        Append(conn[ws_conn[p.to]].sent, NewMail(p))
                  /\ \A d \in Conns \ {ws_conn[p.to]} : conn'[d] = conn[d]
                  /\ Stored(p) = 1 /\ store' = store
                  /\ unit'[u].pc = "sending"
            /\ unit[u].pc \in {"sending", "finished", "removed"}
               => Events(p)' = Events(p)

C7_AtMostOnce ==
    \A u \in Units :
        /\ Events(unit[u].payload) <= 1
        /\ Stored(unit[u].payload) <= 1
        /\ unit[u].pc = "sending" /\ ~conn[unit[u].websock].closed
              => EventsOn(unit[u].websock, unit[u].payload) = 1

\* C7: when a task that is not cancelled dispatches while the identity of its
\* recipient has a registered connection that is not closed, exactly one
\* new_mail event carrying the document is written to that connection and to
\* no other, the document is in the collection exactly once, and no further
\* event for it is ever written: never zero, never more than one.
C7_ExactlyOneEvent == [](C7_AtMostOnce) /\ [][C7_DispatchLive]_vars

\* The message to a@x.com was stored once and its event delivered once to the
\* live subscriber of a@x.com, with no shutdown.
C7_Witness ==
    \E c \in Conns, u \in Units :
        /\ stop_pc = "running"
        /\ conn[c].pc = "listening"
        /\ conn[c].query = "a@x.com"
        /\ unit[u].pc \in {"finished", "removed"}
        /\ unit[u].outcome = "ok"
        /\ unit[u].payload.to = "a@x.com"
        /\ EventsOn(c, unit[u].payload) = 1
        /\ Events(unit[u].payload) = 1
        /\ Stored(unit[u].payload) = 1

----------------------------------------------------------------------------
\* Definitions used by C8.
C8_DispatchNoEntry ==
    \A u \in Units :
        LET p == unit[u].payload
        IN  /\ Dispatching(u) /\ ~unit[u].cancel /\ p.to \notin DOMAIN ws_conn
               => /\ conn' = conn
                  /\ Stored(p) = 1 /\ store' = store
                  /\ unit'[u].pc = "finished"
                  /\ unit'[u].outcome = "ok"
            /\ unit[u].pc = "finished" /\ unit'[u].pc # "finished"
               => /\ unit'[u].pc = "removed"
                  /\ unit'[u].outcome = unit[u].outcome
                  /\ \A i \in DOMAIN app_tasks' : app_tasks'[i] # u
                  /\ Events(p)' = Events(p)

C8_Removed ==
    \A u \in Units :
        /\ unit[u].pc = "removed" => \A i \in DOMAIN app_tasks : app_tasks[i] # u
        /\ unit[u].pc \in {"finished", "removed"} /\ unit[u].outcome = "ok"
              => Stored(unit[u].payload) = 1

\* C8: when a task that is not cancelled dispatches while the identity of its
\* recipient has no entry in _ws_conn, no event is written to any connection,
\* the document is in the collection exactly once, the task ends normally,
\* and its done callback removes it from _app_tasks.
C8_NoSubscriberNoEvent == [](C8_Removed) /\ [][C8_DispatchNoEntry]_vars

\* No websocket request was ever made; a message was stored, its task ended
\* normally and left _app_tasks, and no event exists.
C8_Witness ==
    \E u \in Units :
        /\ \A c \in Conns : conn[c].pc = "new"
        /\ unit[u].pc = "removed"
        /\ unit[u].outcome = "ok"
        /\ app_tasks = <<>>
        /\ Stored(unit[u].payload) = 1
        /\ Events(unit[u].payload) = 0

----------------------------------------------------------------------------
\* Definitions used by C9.
C9_NoTextPlain(message) ==
    /\ message.multipart
    /\ \A j \in DOMAIN message.payload :
          message.payload[j].content_type # "text/plain"

C9_DroppedInv ==
    \A i \in DOMAIN received :
        C9_NoTextPlain(received[i]) =>
            /\ unit[i] = NoUnit
            /\ \A k \in DOMAIN app_tasks : app_tasks[k] # i
            /\ \A k \in DOMAIN store : store[k].timestamp # i
            /\ \A c \in Conns : \A k \in DOMAIN conn[c].sent :
                  conn[c].sent[k].type = "new_mail"
                      => conn[c].sent[k].payload.timestamp # i

C9_DroppedStep ==
    Len(received') = Len(received) + 1
        /\ C9_NoTextPlain(received'[Len(received')])
    => /\ app_tasks' = app_tasks
       /\ unit' = unit
       /\ store' = store
       /\ conn' = conn
       /\ Len(log') = Len(log) + 1

\* C9: for a received multipart message without any text/plain part,
\* handle_message produces no record and spawns no task (_app_tasks, the
\* tasks, the collection and the websockets are left as they were; only the
\* diagnostic is logged), and no document and no event ever exists for that
\* message.
C9_DroppedMessage == [](C9_DroppedInv) /\ [][C9_DroppedStep]_vars

\* A multipart message without text/plain part was received first and a
\* message to the same recipient after it: only the second was stored and
\* notified.
C9_Witness ==
    /\ Len(received) = 2
    /\ C9_NoTextPlain(received[1])
    /\ Len(log) = 1
    /\ unit[1] = NoUnit
    /\ unit[2].pc = "removed"
    /\ Len(store) = 1
    /\ Events(unit[2].payload) = 1

----------------------------------------------------------------------------
\* Definitions used by C10.
C10_Content(message) ==
    IF message.multipart
    THEN LET j == CHOOSE k \in DOMAIN message.payload :
                      /\ message.payload[k].content_type = "text/plain"
                      /\ \A h \in 1..(k - 1) :
                            message.payload[h].content_type # "text/plain"
         IN  message.payload[j].payload
    ELSE message.payload

C10_IsTrimOf(text, content) ==
    \E a, b \in 0..Len(content) :
        /\ a + b <= Len(content)
        /\ text = SubSeq(content, a + 1, Len(content) - b)
        /\ \A k \in 1..a : content[k] \in Whitespace
        /\ \A k \in (Len(content) - b + 1)..Len(content) :
              content[k] \in Whitespace

C10_Clean(text) ==
    text # <<>> =>
        /\ text[1] \notin {" ", "\r", "\n"}
        /\ text[Len(text)] \notin {" ", "\r", "\n"}

\* C10: the text of the record.  For a multipart message it is taken from the
\* first part, in order, whose content type is text/plain, for any other
\* message from the body; in both cases the text is that content without its
\* leading and trailing whitespace, so it neither starts nor ends with a
\* space, CR or LF whatever their order in the content, and trimming it again
\* changes nothing.
C10_RecordText ==
    \A i \in DOMAIN received :
        ~C9_NoTextPlain(received[i]) =>
            /\ Spawned(i)
            /\ C10_IsTrimOf(unit[i].payload.text, C10_Content(received[i]))
            /\ C10_Clean(unit[i].payload.text)
            /\ StripText(unit[i].payload.text) = unit[i].payload.text

\* A body whose leading whitespace mixes LF, space and CR, and a multipart
\* message whose text/plain part comes second.
C10_Witness ==
    \E i \in DOMAIN received :
        \/ /\ ~received[i].multipart
           /\ received[i].payload = <<"\n", " ", "x">>
           /\ unit[i].payload.text = <<"x">>
        \/ /\ received[i].multipart
           /\ Len(received[i].payload) = 2
           /\ received[i].payload[1].content_type = "text/html"
           /\ received[i].payload[2].payload = <<"x">>
           /\ unit[i].payload.text = <<"x">>

----------------------------------------------------------------------------
\* Definitions used by C11.
C11_SendFails(u) ==
    /\ Dispatching(u)
    /\ ~unit[u].cancel
    /\ unit[u].payload.to \in DOMAIN ws_conn
    /\ conn[ws_conn[unit[u].payload.to]].closed

C11_FailedSendStep ==
    \A u \in Units :
        LET p == unit[u].payload
        IN  /\ C11_SendFails(u)
               => /\ Stored(p) = 1 /\ store' = store
                  /\ conn' = conn
                  /\ ws_conn' = ws_conn
                  /\ app_tasks' = app_tasks
                  /\ <<server, stop_pc, gathered, mongo_closed, log>>'
                        = <<server, stop_pc, gathered, mongo_closed, log>>
                  /\ \A v \in Units \ {u} : unit'[v] = unit[v]
                  /\ \/ unit'[u].pc = "finished" /\ unit'[u].outcome = "error"
                     \/ unit'[u].pc = "sending"
            /\ unit[u].outcome = "error"
               => /\ unit'[u].outcome = "error"
                  /\ unit'[u].pc \in {"finished", "removed"}
                  /\ Stored(p)' = 1
                  /\ Events(p)' = 0

C11_FailedSendInv ==
    \A u \in Units :
        unit[u].outcome = "error" =>
            /\ unit[u].pc \in {"finished", "removed"}
            /\ Stored(unit[u].payload) = 1
            /\ Events(unit[u].payload) = 0
            /\ unit[u].pc = "finished" <=> u \in Range(app_tasks)

\* C11: when a task dispatches to a registered connection whose websocket is
\* closed, the failure stays inside the task.  The document stays in the
\* collection, no event is written or kept for any connection (then or later),
\* the registry, _app_tasks, the other tasks, the SMTP server and the
\* shutdown state are left as they were, the task ends (with the send's error
\* as its result, or normally when the send only warns), and a task that
\* ended with the error is then removed from _app_tasks.
C11_SendFailureSwallowed ==
    /\ [](C11_FailedSendInv)
    /\ [][C11_FailedSendStep]_vars
    /\ \A u \in Units :
          unit[u].outcome = "error"
              ~> (unit[u].pc = "removed" /\ u \notin Range(app_tasks))

\* The send to the closed websocket of the recipient raised while the
\* application was running: the task is gone from _app_tasks, its document is
\* stored and no event exists for it.
C11_Witness ==
    \E u \in Units :
        /\ stop_pc = "running"
        /\ unit[u].pc = "removed"
        /\ unit[u].outcome = "error"
        /\ app_tasks = <<>>
        /\ Stored(unit[u].payload) = 1
        /\ Events(unit[u].payload) = 0

----------------------------------------------------------------------------
\* Definitions used by C12.
C12_Stopped ==
    /\ stop_pc = "stopped"
    /\ mongo_closed
    /\ \A u \in gathered :
          /\ unit[u].pc = "removed"
          /\ unit[u].outcome \in {"cancelled", "ok", "error"}

C12_DrainInv ==
    /\ stop_pc \in {"closing_ws", "stopped"} =>
          \A u \in gathered : unit[u].pc = "removed" /\ u \notin Range(app_tasks)
    /\ stop_pc = "stopped" <=> mongo_closed

C12_DrainStep ==
    /\ \A u \in Units :
          unit[u].pc = "backoff" /\ unit[u].cancel /\ unit'[u] # unit[u]
              => /\ unit'[u].pc = "finished"
                 /\ unit'[u].outcome = "cancelled"
                 /\ store' = store
    /\ stop_pc = "gathering" /\ stop_pc' # "gathering"
          => \A e \in DOMAIN ws_conn : conn'[ws_conn[e]].closed

\* C12: shutdown always terminates, whatever number of tasks wait in backoff
\* against a failing store.  Once Application.stop has closed the SMTP server
\* it reaches its end with the Mongo client closed and every task it awaited
\* done and out of _app_tasks; a task in backoff whose cancellation was
\* requested ends cancelled without an insert; the websockets are closed
\* only after every awaited task is done, every websocket of _ws_conn is
\* closed when that step ends, and the Mongo client is closed only at the end.
C12_ShutdownTerminates ==
    /\ (stop_pc = "smtp_stopping") ~> C12_Stopped
    /\ [](C12_DrainInv)
    /\ [][C12_DrainStep]_vars

\* Cancellation was requested while every one of the MaxMsgs tasks waits in
\* backoff after failed inserts, nothing being stored.
C12_Witness ==
    /\ stop_pc = "gathering"
    /\ store = <<>>
    /\ gathered = Units
    /\ \A u \in Units :
          /\ unit[u].pc = "backoff"
          /\ unit[u].cancel
          /\ Len(unit[u].slept) >= 1

----------------------------------------------------------------------------
\* Definitions used by C13.
C13_InFlight == {u \in Units : unit[u].pc \in Suspended \cup {"finished"}}

C13_SetInv ==
    /\ Range(app_tasks) = C13_InFlight
    /\ Len(app_tasks) = Cardinality(Range(app_tasks))
    /\ stop_pc \in {"closing_ws", "stopped"} =>
          \A u \in gathered :
              /\ unit[u].outcome \in {"cancelled", "ok", "error"}
              /\ u \notin Range(app_tasks)

C13_SetStep ==
    \A u \in Units :
        /\ unit[u].pc = "none" /\ unit'[u].pc # "none"
              => /\ unit'[u].pc = "created"
                 /\ app_tasks' = Append(app_tasks, u)
        /\ u \in Range(app_tasks) /\ u \notin Range(app_tasks')
              => /\ unit[u].pc = "finished"
                 /\ unit'[u].pc = "removed"
                 /\ Range(app_tasks') = Range(app_tasks) \ {u}
        /\ unit[u].pc = "removed"
              => unit'[u] = unit[u] /\ u \notin Range(app_tasks')
        /\ unit[u].pc = "finished" /\ unit'[u] # unit[u]
              => unit'[u].pc = "removed" /\ u \notin Range(app_tasks')

----------------------------------------------------------------------------
\* Definitions used by C14.
RECURSIVE C14_Decimal(_)
C14_Decimal(digits) ==
    IF digits = <<>> THEN 0
    ELSE 10 * C14_Decimal(SubSeq(digits, 1, Len(digits) - 1))
         + (CHOOSE d \in 0..9 : Digits[d + 1] = digits[Len(digits)])

C14_Allowed(domain) == \E i \in DOMAIN config.domains : config.domains[i] = domain

C14_Answer ==
    auth.called =>
        \A name \in AuthNames, local \in AuthLocals, domain \in AuthDomains :
            HeadersGet(auth.request.headers, "Auth-SMTP-To", <<>>)
                = Address(name, local, domain)
            => /\ auth.response.status = 200
               /\ IF C14_Allowed(domain)
                  THEN /\ DOMAIN auth.response.headers
                             = {"Auth-Status", "Auth-Server", "Auth-Port"}
                       /\ auth.response.headers["Auth-Status"] = "OK"
                       /\ C14_Decimal(auth.response.headers["Auth-Port"])
                             = config.smtp_port
                       /\ auth.response.headers["Auth-Server"]
                             = auth.request.headers["Host"]
                  ELSE /\ DOMAIN auth.response.headers
                             = {"Auth-Status", "Auth-Wait"}
                       /\ auth.response.headers["Auth-Status"] = "FORBIDDEN"

C14_NoSideEffect ==
    auth' # auth =>
        /\ ws_conn' = ws_conn
        /\ app_tasks' = app_tasks
        /\ store' = store
        /\ <<server, received, log, unit, conn, stop_pc, gathered,
             mongo_closed, config>>'
              = <<server, received, log, unit, conn, stop_pc, gathered,
                  mongo_closed, config>>

\* C14: for every /nginx-auth request whose Auth-SMTP-To header is
\* "Name <local@domain>" (a name without "<", a local part without "@"), the
\* response has status 200 and is Auth-Status OK, with Auth-Port the decimal
\* text of the configured SMTP port and Auth-Server the request's Host, when
\* domain equals an entry of the configured allow-list, and Auth-Status
\* FORBIDDEN when it equals none; answering changes neither _ws_conn,
\* _app_tasks nor the collection, nor anything else of the application.
C14_Authorization == [](C14_Answer) /\ [][C14_NoSideEffect]_vars

\* With the allow-list [y.org, x.com] and SMTP port 25, a request for
\* "Bob <u@y.org>" was answered OK with port 25 while a subscriber is
\* registered, a task is in flight and a document is stored.
C14_Witness ==
    /\ auth.called
    /\ config = [domains |-> <<Yorg, Xcom>>, smtp_port |-> 25]
    /\ HeadersGet(auth.request.headers, "Auth-SMTP-To", <<>>)
          = Address(<<"B", "o", "b", " ">>, <<"u">>, Yorg)
    /\ auth.response.status = 200
    /\ auth.response.headers["Auth-Status"] = "OK"
    /\ auth.response.headers["Auth-Port"] = <<"2", "5">>
    /\ DOMAIN ws_conn # {}
    /\ app_tasks # <<>>
    /\ store # <<>>

----------------------------------------------------------------------------
\* Definitions used by C15.
C15_Transitions ==
    {<<"running", "smtp_stopping">>, <<"smtp_stopping", "gathering">>,
     <<"gathering", "closing_ws">>, <<"gathering", "stopped">>,
     <<"closing_ws", "stopped">>}

C15_OrderInv ==
    /\ stop_pc # "running" => server = "closed"
    /\ stop_pc \in {"running", "smtp_stopping"} =>
          /\ gathered = {}
          /\ \A u \in Units : ~unit[u].cancel
          /\ \A u \in Units : unit[u].pc \in Suspended => u \in Range(app_tasks)
    /\ \A u \in Units : unit[u].cancel \/ unit[u].outcome = "cancelled"
          => u \in gathered
    /\ \A u \in gathered :
          unit[u].cancel \/ unit[u].pc \in {"finished", "removed"}
    /\ stop_pc \in {"closing_ws", "stopped"} =>
          \A u \in gathered : unit[u].pc = "removed"
    /\ mongo_closed =>
          /\ stop_pc = "stopped"
          /\ \A u \in gathered : unit[u].pc \notin Suspended
    /\ stop_pc = "stopped" => mongo_closed

C15_OrderStep ==
    /\ stop_pc' # stop_pc => <<stop_pc, stop_pc'>> \in C15_Transitions
    /\ stop_pc = "running" /\ stop_pc' # "running"
          => /\ server' = "closed"
             /\ <<unit, app_tasks, conn, ws_conn, store, mongo_closed>>'
                   = <<unit, app_tasks, conn, ws_conn, store, mongo_closed>>
    /\ stop_pc = "smtp_stopping" /\ stop_pc' # "smtp_stopping"
          => /\ gathered' = Range(app_tasks)
             /\ \A u \in Range(app_tasks) :
                   unit'[u].cancel \/ unit[u].pc = "finished"
             /\ \A u \in Units \ Range(app_tasks) : unit'[u] = unit[u]
             /\ <<conn, ws_conn, store, mongo_closed>>'
                   = <<conn, ws_conn, store, mongo_closed>>
    /\ stop_pc = "gathering" /\ stop_pc' # "gathering"
          => /\ \A e \in DOMAIN ws_conn : conn'[ws_conn[e]].closed
             /\ \A c \in Conns : conn'[c].closed /\ ~conn[c].closed
                   => \E e \in DOMAIN ws_conn : ws_conn[e] = c
             /\ stop_pc' = "stopped"
                   <=> \A e \in DOMAIN ws_conn : conn[ws_conn[e]].closed
             /\ unit' = unit
    /\ mongo_closed' /\ ~mongo_closed
          => /\ stop_pc \in {"gathering", "closing_ws"}
             /\ stop_pc' = "stopped"
             /\ <<unit, app_tasks, ws_conn, store>>'
                   = <<unit, app_tasks, ws_conn, store>>

\* C15: Application.stop runs Running -> Draining -> Stopped in one order.
\* The SMTP server is closed first; then cancellation is requested for exactly
\* the tasks of _app_tasks, which are all the running tasks; then those tasks
\* are awaited, whatever their outcomes; then every websocket of _ws_conn that
\* is not closed is closed, and no other; and only after that is the Mongo
\* client closed.  When the Mongo client is closed, no task that was running
\* when cancellation was requested (so none that was running at the stop
\* signal) is still running.
C15_ShutdownOrder == [](C15_OrderInv) /\ [][C15_OrderStep]_vars

\* Shutdown has ended: every message's task was awaited and ended cancelled,
\* and a subscriber's websocket was closed by Application.stop.
C15_Witness ==
    /\ stop_pc = "stopped"
    /\ mongo_closed
    /\ gathered = Units
    /\ \A u \in Units : unit[u].pc = "removed" /\ unit[u].outcome = "cancelled"
    /\ \E c \in Conns :
          /\ conn[c].pc = "unwinding"
          /\ conn[c].closed
          /\ conn[c].query \in DOMAIN ws_conn

----------------------------------------------------------------------------
\* Definitions used by C16.
C16_NotifyStep ==
    \A u \in Units :
        LET p == unit[u].payload
        IN  /\ unit[u].pc = "inserted" /\ unit'[u].pc # "inserted"
            /\ p.to \in DOMAIN ws_conn /\ ~conn[ws_conn[p.to]].closed
            => /\ unit'[u].outcome # "cancelled"
               /\ EventsOn(ws_conn[p.to], p)' = 1

\* C16: a task whose insert has succeeded and which has not yet sent its
\* event is not interrupted by the cancellation of Application.stop: when its
\* recipient has a registered connection that is not closed, the task's next
\* step is the notify step, never the end by cancellation, and that
\* connection gets the event of the stored document.
C16_NotifyAfterInsert == [][C16_NotifyStep]_vars

----------------------------------------------------------------------------
\* Definitions used by C17.
C17_Troubled(u) ==
    \/ unit[u].pc \in {"attempting", "backoff"}
    \/ unit[u].outcome = "error"

C17_CanProceed(v) ==
    /\ unit[v].pc = "created" /\ ~unit[v].cancel => ENABLED StartTask(v)
    /\ unit[v].pc = "attempting" /\ ~unit[v].cancel => ENABLED InsertOk(v)
    /\ unit[v].pc = "backoff" /\ ~unit[v].cancel => ENABLED WakeUp(v)
    /\ unit[v].pc = "inserted" /\ ~unit[v].cancel => ENABLED Dispatch(v)
    /\ unit[v].pc = "sending" /\ ~unit[v].cancel => ENABLED SendDone(v)
    /\ unit[v].pc = "finished" => ENABLED DoneCallback(v)

C17_Progress ==
    \A u, v \in Units : u # v /\ C17_Troubled(u) => C17_CanProceed(v)

\* A step of the task u alone: not the spawn, not the cancellation request.
C17_StepOf(u) ==
    /\ unit'[u] # unit[u]
    /\ Spawned(u)
    /\ stop_pc' = stop_pc

C17_OwnEffects ==
    \A u \in Units :
        LET p == unit[u].payload
        IN  C17_StepOf(u)
            => /\ \A v \in Units \ {u} : unit'[v] = unit[v]
               /\ ws_conn' = ws_conn
               /\ <<server, received, log, gathered, mongo_closed>>'
                     = <<server, received, log, gathered, mongo_closed>>
               /\ store' = store \/ store' = Append(store, p)
               /\ \A v \in Units \ {u} :
                     v \in Range(app_tasks') <=> v \in Range(app_tasks)
               /\ \A c \in Conns :
                     \/ conn'[c] = conn[c]
                     \/ /\ conn'[c].sent = Append(conn[c].sent, NewMail(p))
                        /\ conn'[c].pc = conn[c].pc
                        /\ conn'[c].closed = conn[c].closed
                        /\ conn'[c].query = conn[c].query

----------------------------------------------------------------------------
\* Definitions used by C18.
C18_RoutedInv ==
    /\ \A c \in Conns : \A i \in DOMAIN conn[c].sent :
          conn[c].sent[i].type = "new_mail"
              => conn[c].query = conn[c].sent[i].payload.to
    /\ \A u \in Units : Spawned(u) =>
          Cardinality({c \in Conns : EventsOn(c, unit[u].payload) > 0}) <= 1

C18_RoutedStep ==
    \A u \in Units : \A c \in Conns :
        EventsOn(c, unit[u].payload)' > EventsOn(c, unit[u].payload)
            => /\ Dispatching(u)
               /\ unit[u].payload.to \in DOMAIN ws_conn
               /\ ws_conn[unit[u].payload.to] = c
               /\ conn[c].query = unit[u].payload.to
               /\ EventsOn(c, unit[u].payload)' = 1

\* C18: the event of a document goes to at most one connection, the one that
\* _ws_conn maps the document's `to` string to when the task dispatches.  An
\* event is written only by the dispatch step of the document's task, to the
\* connection registered under exactly payload['to'] at that step; every
\* new_mail event a connection has received carries a `to` equal to the
\* identity the connection subscribed with; and no document has events on two
\* connections.
C18_RoutedToRecipient == [](C18_RoutedInv) /\ [][C18_RoutedStep]_vars

\* Two subscribers under different identities, two documents: each subscriber
\* has received exactly the document addressed to its identity.
C18_Witness ==
    \E c, d \in Conns : \E u, v \in Units :
        /\ c # d /\ u # v
        /\ conn[c].query # conn[d].query
        /\ unit[u].payload.to = conn[c].query
        /\ unit[v].payload.to = conn[d].query
        /\ conn[c].sent = <<NewMail(unit[u].payload)>>
        /\ conn[d].sent = <<NewMail(unit[v].payload)>>

----------------------------------------------------------------------------
\* C19: once Application.stop has handled the stop signal no new task is
\* spawned.  Every task that is in flight once cancellation has been
\* requested is one of the tasks that were cancelled and awaited; when
\* Application.stop has ended, _app_tasks is empty; and once the Mongo client
\* is closed no task is before or inside an insert attempt.
C19_NoUnitAfterStop ==
    /\ stop_pc \in {"gathering", "closing_ws", "stopped"} =>
          \A u \in Units :
              unit[u].pc \in Suspended \cup {"finished"} => u \in gathered
    /\ stop_pc = "stopped" => app_tasks = <<>>
    /\ mongo_closed =>
          \A u \in Units : unit[u].pc \notin {"created", "attempting", "backoff"}

----------------------------------------------------------------------------
\* Definitions used by C20.
C20_OwnEntryInv ==
    \A c \in Conns :
        /\ conn[c].pc # "raised"
        /\ conn[c].pc = "unwinding" =>
              /\ conn[c].query \in DOMAIN ws_conn
              /\ ws_conn[conn[c].query] = c

C20_OwnEntryStep ==
    /\ \A e \in DOMAIN ws_conn :
          IF e \in DOMAIN ws_conn'
          THEN ws_conn'[e] = ws_conn[e]
          ELSE /\ conn[ws_conn[e]].pc = "unwinding"
               /\ conn'[ws_conn[e]].pc = "returned"
               /\ conn[ws_conn[e]].query = e
               /\ DOMAIN ws_conn' = DOMAIN ws_conn \ {e}
    /\ \A c \in Conns :
          /\ conn[c].pc = "rejected" /\ conn'[c] # conn[c]
                => ws_conn' = ws_conn /\ conn'[c].pc = "returned"
          /\ conn[c].pc = "unwinding" /\ conn'[c] # conn[c]
                => /\ conn'[c].pc = "returned"
                   /\ ws_conn' = [e \in DOMAIN ws_conn \ {conn[c].query}
                                      |-> ws_conn[e]]

\* C20: the del of websocket_handler's finally clause removes the entry its
\* own connection installed.  When an accepted handler is about to leave, its
\* identity is a key of _ws_conn and maps to its own websocket, so the del
\* never raises KeyError; an entry disappears only by the handler of the
\* connection it maps to, one entry at a time; an entry is never replaced;
\* and a rejected handler returns without touching _ws_conn.
C20_RemovesOwnEntry == [](C20_OwnEntryInv) /\ [][C20_OwnEntryStep]_vars

\* A request was rejected as duplicate and returned while the accepted
\* connection kept its entry; shutdown then closed the accepted connection and
\* its handler removed the entry.
C20_Witness ==
    \E c, d \in Conns :
        /\ c < d
        /\ stop_pc = "stopped"
        /\ conn[c].pc = "returned" /\ conn[c].closed /\ conn[c].sent = <<>>
        /\ conn[d].query = conn[c].query
        /\ Rejected(d, "subscriber already exists")
        /\ conn[d].pc = "returned"
        /\ DOMAIN ws_conn = {}

====
